---- MODULE Spec2Model ----
(***************************************************************************)
(* Document identity resolution, archive/sample/validation partitioning    *)
(* (main.py) and the roster auditor (check.py).                            *)
(*                                                                         *)
(* Python strings are sequences of one-character strings, so that split,   *)
(* upper, isdigit, basename and the regular expressions are computed the   *)
(* way the code computes them.                                             *)
(***************************************************************************)
EXTENDS Integers, Sequences, FiniteSets, TLC

VARIABLES
    pc,             \* position in the script being run
    filepath,       \* resolver: the document path handed to the resolver
    mapping,        \* main.py: name -> patient id (load_mapping's dict)
    disk,           \* path -> content of the XML document stored there
    category,       \* resolver: value returned by parse_category
    ident,          \* resolver: tuple returned by parse_patient_id_and_name
    files,          \* main.py: file_index, the enumerated source paths
    patient_files,  \* main.py: patient_id -> category -> list of paths
    skipped,        \* main.py: documents the build pass left out of the index
    full_fs,        \* directory tree 1.full: destination -> source copied
    part_fs,        \* directory tree 2.sample: destination -> source copied
    category_files, \* make_validation_set: category -> pooled list
    validation,     \* make_validation_set: category -> batches written
    table,          \* check.py: the id column of the roster sheet, row by row
    df,             \* check.py: the data frame with its row numbers
    full_ids,       \* check.py: the ids read from the archive's folders
    report          \* check.py: the lines printed by check_missing_patients

resolverVars == <<filepath, category, ident>>
corpusVars == <<files, mapping, disk>>
archiveVars == <<patient_files, skipped, full_fs>>
splitVars == <<category_files, validation>>
auditVars == <<table, df, report>>

vars == <<pc, resolverVars, corpusVars, archiveVars, part_fs, splitVars,
          auditVars, full_ids>>

----------------------------------------------------------------------------
(* Bounds of the model.                                                    *)

MaxTokens == 6      \* tokens of a generated file name
MaxFiles == 2       \* freely chosen documents of a corpus
MaxRun == 12        \* documents of one bucket appended to a corpus
MaxPool == 310      \* pooled files of one category
MaxRows == 3        \* rows of the roster sheet

----------------------------------------------------------------------------
(* Program constants.                                                      *)

SampleCap == 10     \* main.py:115
MaxBatch == 100     \* main.py:151
RowOffset == 2      \* check.py:9

UNKNOWN == <<"U", "N", "K", "N", "O", "W", "N">>
\* main.py:61,78 use a four-character Chinese literal ("unknown name"); it
\* is written here in ASCII by its pinyin initials.
UnknownName == <<"w", "z", "x", "m">>

----------------------------------------------------------------------------
(* Python string primitives.                                               *)

LowerLetters == <<"a", "b", "c", "d", "e", "f", "g", "h", "i", "j", "k", "l",
                  "m", "n", "o", "p", "q", "r", "s", "t", "u", "v", "w", "x",
                  "y", "z">>
UpperLetters == <<"A", "B", "C", "D", "E", "F", "G", "H", "I", "J", "K", "L",
                  "M", "N", "O", "P", "Q", "R", "S", "T", "U", "V", "W", "X",
                  "Y", "Z">>
DigitChars == {"0", "1", "2", "3", "4", "5", "6", "7", "8", "9"}

UpperChar(c) ==
    IF \E i \in 1..26 : LowerLetters[i] = c
    THEN UpperLetters[CHOOSE i \in 1..26 : LowerLetters[i] = c]
    ELSE c

\* str.upper()
Upper(s) == [i \in 1..Len(s) |-> UpperChar(s[i])]

\* str.isdigit(): false on the empty string
IsDigit(s) == Len(s) > 0 /\ \A i \in 1..Len(s) : s[i] \in DigitChars

\* str.split(sep): every separator splits, empty pieces are kept
RECURSIVE Split(_, _)
Split(s, sep) ==
    IF \E i \in 1..Len(s) : s[i] = sep
    THEN LET i == CHOOSE k \in 1..Len(s) :
                      s[k] = sep /\ \A j \in 1..(k - 1) : s[j] # sep
         IN  <<SubSeq(s, 1, i - 1)>> \o Split(SubSeq(s, i + 1, Len(s)), sep)
    ELSE <<s>>

\* str.split(sep, 1): at most one split
SplitOnce(s, sep) ==
    IF \E i \in 1..Len(s) : s[i] = sep
    THEN LET i == CHOOSE k \in 1..Len(s) :
                      s[k] = sep /\ \A j \in 1..(k - 1) : s[j] # sep
         IN  <<SubSeq(s, 1, i - 1), SubSeq(s, i + 1, Len(s))>>
    ELSE <<s>>

\* str.strip(): leading and trailing white space removed
Strip(s) ==
    IF \A i \in 1..Len(s) : s[i] = " "
    THEN <<>>
    ELSE LET a == CHOOSE k \in 1..Len(s) :
                      s[k] # " " /\ \A j \in 1..(k - 1) : s[j] = " "
             b == CHOOSE k \in 1..Len(s) :
                      s[k] # " " /\ \A j \in (k + 1)..Len(s) : s[j] = " "
         IN  SubSeq(s, a, b)

\* os.path.basename: what follows the last "/"
Basename(path) ==
    IF \E i \in 1..Len(path) : path[i] = "/"
    THEN LET i == CHOOSE k \in 1..Len(path) :
                      path[k] = "/" /\ \A j \in (k + 1)..Len(path) : path[j] # "/"
         IN  SubSeq(path, i + 1, Len(path))
    ELSE path

\* re.match(r"SD\d+", t): a match at the start of t, not of the whole of t
MatchFused(t) ==
    Len(t) >= 3 /\ t[1] = "S" /\ t[2] = "D" /\ t[3] \in DigitChars

\* re.match(r"SD-\d+", t)
MatchDashed(t) ==
    Len(t) >= 4 /\ t[1] = "S" /\ t[2] = "D" /\ t[3] = "-" /\ t[4] \in DigitChars

----------------------------------------------------------------------------
(* parse_category                                                          *)

\* the loop of parse_category from token i on (i counts from 1)
RECURSIVE CategoryFrom(_, _)
CategoryFrom(parts, i) ==
    IF i > Len(parts) THEN UNKNOWN
    ELSE IF Upper(parts[i]) = <<"S", "D">> /\ i + 1 <= Len(parts)
            /\ IsDigit(parts[i + 1])
         THEN <<"S", "D", "-">> \o parts[i + 1]
    ELSE IF MatchFused(Upper(parts[i])) THEN Upper(parts[i])
    ELSE IF MatchDashed(Upper(parts[i])) THEN Upper(parts[i])
    ELSE CategoryFrom(parts, i + 1)

parse_category(filename) == CategoryFrom(Split(filename, "-"), 1)

----------------------------------------------------------------------------
(* extract_patient_id_from_xml                                             *)

\* A document is malformed, or well formed without the id element, or with
\* an id element that has no extension attribute, or with one that has.
Malformed == [kind |-> "malformed", extension |-> <<>>]
NoIdNode == [kind |-> "noid", extension |-> <<>>]
NoExtension == [kind |-> "noext", extension |-> <<>>]
WithExtension(e) == [kind |-> "ext", extension |-> e]

extract_patient_id_from_xml(fp, dk) ==
    IF dk[fp].kind = "ext" THEN dk[fp].extension ELSE UNKNOWN

----------------------------------------------------------------------------
(* parse_patient_id_and_name                                               *)

NotSlash(c) == c # "/" /\ c # "\\"

\* re.search(r"(ZY\d+)-([^/\\]+)", s) matches at position p
PathMatchAt(s, p) ==
    /\ p + 2 <= Len(s)
    /\ s[p] = "Z" /\ s[p + 1] = "Y" /\ s[p + 2] \in DigitChars
    /\ LET e == CHOOSE k \in (p + 2)..Len(s) :
                    /\ \A j \in (p + 2)..k : s[j] \in DigitChars
                    /\ (k = Len(s) \/ s[k + 1] \notin DigitChars)
       IN  e + 2 <= Len(s) /\ s[e + 1] = "-" /\ NotSlash(s[e + 2])

PathMatches(s) == \E p \in 1..Len(s) : PathMatchAt(s, p)

\* the two groups of the leftmost match
PathGroups(s) ==
    LET p == CHOOSE k \in 1..Len(s) :
                 PathMatchAt(s, k) /\ \A j \in 1..(k - 1) : ~PathMatchAt(s, j)
        e == CHOOSE k \in (p + 2)..Len(s) :
                 /\ \A j \in (p + 2)..k : s[j] \in DigitChars
                 /\ (k = Len(s) \/ s[k + 1] \notin DigitChars)
        z == CHOOSE k \in (e + 2)..Len(s) :
                 /\ \A j \in (e + 2)..k : NotSlash(s[j])
                 /\ (k = Len(s) \/ ~NotSlash(s[k + 1]))
    IN  <<SubSeq(s, p, e), SubSeq(s, e + 2, z)>>

\* dict.get(name, "UNKNOWN")
MappingGet(mp, name) == IF name \in DOMAIN mp THEN mp[name] ELSE UNKNOWN

SD04 == <<"S", "D", "-", "0", "4">>
SD05 == <<"S", "D", "-", "0", "5">>

\* the path pattern tried before the category-directed extraction
PathFirst_parse_patient_id_and_name(fp, mp, dk) ==
    LET fname == Basename(fp)
        cat == parse_category(fname)
        parts == Split(fname, "-")
    IN  IF PathMatches(fp) THEN PathGroups(fp)
        ELSE IF cat \in {SD04, SD05}
        THEN LET name == IF Len(parts) >= 5 THEN parts[5] ELSE UnknownName
             IN  <<MappingGet(mp, name), name>>
        ELSE LET name == IF Len(parts) >= 4 THEN parts[4] ELSE UnknownName
             IN  <<extract_patient_id_from_xml(fp, dk), name>>

parse_patient_id_and_name(fp, mp, dk) ==
    LET fname == Basename(fp)
        cat == parse_category(fname)
        parts == Split(fname, "-")
    IN  IF cat \in {SD04, SD05}
        THEN LET name == IF Len(parts) >= 5 THEN parts[5] ELSE UnknownName
             IN  <<MappingGet(mp, name), name>>
        ELSE IF PathMatches(fp) THEN PathGroups(fp)
        ELSE LET name == IF Len(parts) >= 4 THEN parts[4] ELSE UnknownName
             IN  <<extract_patient_id_from_xml(fp, dk), name>>

----------------------------------------------------------------------------
(* Inputs of the resolvers.                                                *)

DotXml == <<".", "x", "m", "l">>

\* the tokens joined by "-"
RECURSIVE Join(_)
Join(toks) ==
    IF Len(toks) = 0 THEN <<>>
    ELSE IF Len(toks) = 1 THEN toks[1]
    ELSE toks[1] \o <<"-">> \o Join(Tail(toks))

NameN == <<"n">>
NameQ == <<"q">>
NameW == <<"w">>
IdZY1 == <<"Z", "Y", "1">>
IdHyphen == <<"R", "-", "2">>
IdPadded == <<" ", "Z", "Y", "3">>
IdContent == <<"E", "7">>

\* tokens of the generated file names: the delimited marker in lower case,
\* a two-digit number, a fused marker, and a person name
Tokens == {<<"s", "d">>, <<"0", "4">>, <<"S", "D", "0", "5">>, NameN}

\* index_files keeps only names that end in .xml
FileNames ==
    UNION {{Join(t) \o DotXml : t \in [1..n -> Tokens]} : n \in 1..MaxTokens}

DirPlain == <<"/", "a">>
DirPatient == <<"/">> \o IdZY1 \o <<"-">> \o NameQ

InPath(dir, fname) == dir \o <<"/">> \o fname

\* load_mapping: a dict from the name column to the id column
Rosters == {<<>>, NameN :> IdZY1,
            (NameN :> IdHyphen) @@ (NameW :> IdPadded)}

XmlContents == {Malformed, NoIdNode, NoExtension, WithExtension(IdContent)}

NotRun == <<>>

Idle ==
    /\ files = <<>> /\ patient_files = <<>> /\ skipped = {}
    /\ full_fs = <<>> /\ part_fs = <<>>
    /\ category_files = <<>> /\ validation = <<>>
    /\ table = <<>> /\ df = <<>> /\ full_ids = {} /\ report = <<>>

InitResolve ==
    /\ pc = "resolve"
    /\ filepath \in {InPath(d, f) : d \in {DirPlain, DirPatient}, f \in FileNames}
    /\ mapping \in {<<>>, NameN :> IdZY1}
    /\ disk \in {filepath :> c : c \in {NoExtension, WithExtension(IdContent)}}
    /\ category = NotRun /\ ident = NotRun
    /\ Idle

ParseCategory ==
    /\ pc = "resolve"
    /\ category' = parse_category(Basename(filepath))
    /\ pc' = "category"
    /\ UNCHANGED <<filepath, ident, corpusVars, archiveVars, part_fs,
                   splitVars, auditVars, full_ids>>

ParsePatientIdAndName ==
    /\ pc = "category"
    /\ ident' = parse_patient_id_and_name(filepath, mapping, disk)
    /\ pc' = "identity"
    /\ UNCHANGED <<filepath, category, corpusVars, archiveVars, part_fs,
                   splitVars, auditVars, full_ids>>

NextResolve == ParseCategory \/ ParsePatientIdAndName

SpecResolve == InitResolve /\ [][NextResolve]_vars

----------------------------------------------------------------------------
(* Dictionaries.  A Python dict keeps its keys in insertion order, and the  *)
(* loops of copy_limited_files run in that order, so a dict is a sequence   *)
(* of [key, val] entries without repeated keys.                             *)

HasKey(d, k) == \E i \in 1..Len(d) : d[i].key = k
Keys(d) == {d[i].key : i \in 1..Len(d)}
Get(d, k) == d[CHOOSE i \in 1..Len(d) : d[i].key = k].val
\* defaultdict lookup: the default when the key is missing
GetOr(d, k, default) == IF HasKey(d, k) THEN Get(d, k) ELSE default
\* d[k] = v: an old key keeps its place, a new key goes last
Put(d, k, v) ==
    IF HasKey(d, k)
    THEN [i \in 1..Len(d) |-> IF d[i].key = k THEN [key |-> k, val |-> v] ELSE d[i]]
    ELSE Append(d, [key |-> k, val |-> v])

\* patient_files[patient_id][category], [] when absent
Bucket(pf, pid, cat) == GetOr(GetOr(pf, pid, <<>>), cat, <<>>)

\* a document without a patient id left out of the index
DropUnknown_AppendToBucket(pf, pid, cat, src) ==
    IF pid = UNKNOWN THEN pf
    ELSE Put(pf, pid, Put(GetOr(pf, pid, <<>>), cat,
                          Append(GetOr(GetOr(pf, pid, <<>>), cat, <<>>), src)))

\* patient_files[patient_id][category].append(src)
AppendToBucket(pf, pid, cat, src) ==
    Put(pf, pid, Put(GetOr(pf, pid, <<>>), cat,
                     Append(Bucket(pf, pid, cat), src)))

----------------------------------------------------------------------------
(* Directory trees.  A tree maps a destination <<folder, category, name>>   *)
(* to the source whose bytes it holds; shutil.copy onto an existing         *)
(* destination replaces it.                                                 *)

FolderName(pid, name) == pid \o <<"-">> \o name

Dest(pid, name, cat, fname) == <<FolderName(pid, name), cat, fname>>

ShutilCopy(fs, src, dest) == (dest :> src) @@ fs

----------------------------------------------------------------------------
(* copy_all_files                                                          *)

\* one iteration of the loop at main.py:89; st = [pf, skipped, fs].  The
\* body has no branch that leaves a document out: every iteration copies
\* and appends, so skipped stays as it is.
CopyOne(st, src, mp, dk) ==
    LET fname == Basename(src)
        pn == parse_patient_id_and_name(src, mp, dk)
        cat == parse_category(fname)
    IN  [pf |-> AppendToBucket(st.pf, pn[1], cat, src),
         skipped |-> st.skipped,
         fs |-> ShutilCopy(st.fs, src, Dest(pn[1], pn[2], cat, fname))]

RECURSIVE CopyAllFrom(_, _, _, _, _)
CopyAllFrom(st, fl, i, mp, dk) ==
    IF i > Len(fl) THEN st
    ELSE CopyAllFrom(CopyOne(st, fl[i], mp, dk), fl, i + 1, mp, dk)

copy_all_files(fl, mp, dk) ==
    CopyAllFrom([pf |-> <<>>, skipped |-> {}, fs |-> <<>>], fl, 1, mp, dk)

----------------------------------------------------------------------------
(* copy_limited_files                                                      *)

\* the innermost loop at main.py:114 over one bucket; st = [fs, counter]
RECURSIVE LimitedBucket(_, _, _, _, _, _, _)
LimitedBucket(st, pid, cat, lst, i, mp, dk) ==
    IF i > Len(lst) THEN st
    ELSE IF st.counter < SampleCap
         THEN LET src == lst[i]
                  name == parse_patient_id_and_name(src, mp, dk)[2]
              IN  LimitedBucket(
                      [fs |-> ShutilCopy(st.fs, src,
                                         Dest(pid, name, cat, Basename(src))),
                       counter |-> st.counter + 1],
                      pid, cat, lst, i + 1, mp, dk)
         ELSE LimitedBucket(st, pid, cat, lst, i + 1, mp, dk)

\* the loop at main.py:113 over the categories of one patient
RECURSIVE LimitedCats(_, _, _, _, _, _)
LimitedCats(fs, pid, cats, j, mp, dk) ==
    IF j > Len(cats) THEN fs
    ELSE LimitedCats(
             LimitedBucket([fs |-> fs, counter |-> 0], pid, cats[j].key,
                           cats[j].val, 1, mp, dk).fs,
             pid, cats, j + 1, mp, dk)

\* the loop at main.py:112 over the patients
RECURSIVE LimitedPatients(_, _, _, _, _)
LimitedPatients(fs, pf, i, mp, dk) ==
    IF i > Len(pf) THEN fs
    ELSE LimitedPatients(LimitedCats(fs, pf[i].key, pf[i].val, 1, mp, dk),
                         pf, i + 1, mp, dk)

copy_limited_files(pf, mp, dk) == LimitedPatients(<<>>, pf, 1, mp, dk)

----------------------------------------------------------------------------
(* load_patient_ids_from_full (check.py)                                   *)

\* os.listdir(full_dir): the folders the tree holds
Folders(fs) == {d[1] : d \in DOMAIN fs}

load_patient_ids_from_full(fs) ==
    {Strip(SplitOnce(folder, "-")[1]) : folder \in Folders(fs)}

----------------------------------------------------------------------------
(* Corpora: the enumerated file list and the documents' contents.          *)

Digit(k) == <<"0", "1", "2", "3", "4", "5", "6", "7", "8", "9">>[k + 1]

\* the decimal numeral of k
RECURSIVE Num(_)
Num(k) == IF k < 10 THEN <<Digit(k)>> ELSE Num(k \div 10) \o <<Digit(k % 10)>>

TokSD == <<"S", "D">>
TokP == <<"p">>
NameM == <<"m">>
IdContentHyphen == <<"E", "-", "7">>
DirOther == <<"/", "b">>

Doc(path, content) == [path |-> path, content |-> content]

\* SD-04 documents of one person, told apart by a serial number
FamName(k) == Join(<<TokSD, <<"0", "4">>, TokP, TokP, NameN, Num(k)>>) \o DotXml
Fam(k) == Doc(InPath(DirPlain, FamName(k)), NoIdNode)

\* other documents, by content
Other(dir, k, content) ==
    Doc(InPath(dir, Join(<<<<"S", "D", "0", "2">>, TokP, TokP, NameM, Num(k)>>)
                    \o DotXml),
        content)

BaseDocs ==
    { \* the file name of Fam(1) under another directory
      Doc(InPath(DirOther, FamName(1)), NoIdNode),
      \* SD-04 with fewer than five tokens, outside and inside a patient folder
      Doc(InPath(DirPlain, Join(<<TokSD, <<"0", "4">>, <<"x">>>>) \o DotXml), NoIdNode),
      Doc(InPath(DirPatient, Join(<<TokSD, <<"0", "4">>, <<"x">>>>) \o DotXml), NoIdNode),
      \* SD-05 of a person the roster may not know
      Doc(InPath(DirPlain,
                 Join(<<TokSD, <<"0", "5">>, TokP, TokP, NameW, Num(1)>>) \o DotXml),
          NoIdNode),
      \* another category inside a patient folder
      Doc(InPath(DirPatient, Join(<<<<"k">>, <<"s", "d">>, <<"0", "1">>, NameM>>) \o DotXml),
          WithExtension(IdContent)),
      \* a fused marker as the last token, and no marker at all
      Doc(InPath(DirPlain, Join(<<<<"k">>, <<"S", "D", "0", "1">>>>) \o DotXml), NoIdNode),
      Doc(InPath(DirPlain, <<"x">> \o DotXml), Malformed),
      \* identified by their content
      Other(DirPlain, 1, WithExtension(IdContent)),
      Other(DirOther, 1, WithExtension(IdContent)),
      Other(DirPlain, 2, WithExtension(IdContentHyphen)) }

\* the sequences of n distinct elements of S
Arrangements(S, n) ==
    {q \in [1..n -> S] : \A i, j \in 1..n : i # j => q[i] # q[j]}

\* index_files lists every path once: up to MaxFiles documents of BaseDocs
\* in any order, followed by the first r documents of the family
Corpora ==
    {b \o [k \in 1..r |-> Fam(k)] :
        b \in UNION {Arrangements(BaseDocs, n) : n \in 0..MaxFiles},
        r \in 0..MaxRun}

InitPipeline ==
    /\ pc = "indexed"
    /\ \E c \in Corpora :
          /\ files = [i \in 1..Len(c) |-> c[i].path]
          /\ disk = [p \in {c[i].path : i \in 1..Len(c)} |->
                        (CHOOSE d \in {c[i] : i \in 1..Len(c)} : d.path = p).content]
    /\ mapping \in Rosters
    /\ filepath = NotRun /\ category = NotRun /\ ident = NotRun
    /\ patient_files = <<>> /\ skipped = {}
    /\ full_fs = <<>> /\ part_fs = <<>>
    /\ category_files = <<>> /\ validation = <<>>
    /\ table = <<>> /\ df = <<>> /\ full_ids = {} /\ report = <<>>

CopyAllFiles ==
    /\ pc = "indexed"
    /\ LET st == copy_all_files(files, mapping, disk)
       IN  patient_files' = st.pf /\ skipped' = st.skipped /\ full_fs' = st.fs
    /\ pc' = "full"
    /\ UNCHANGED <<resolverVars, corpusVars, part_fs, splitVars, auditVars,
                   full_ids>>

CopyLimitedFiles ==
    /\ pc = "full"
    /\ part_fs' = copy_limited_files(patient_files, mapping, disk)
    /\ pc' = "sample"
    /\ UNCHANGED <<resolverVars, corpusVars, archiveVars, splitVars,
                   auditVars, full_ids>>

\* check.py's scan of the archive that main.py left behind
LoadPatientIdsFromFull ==
    /\ pc = "sample"
    /\ full_ids' = load_patient_ids_from_full(full_fs)
    /\ pc' = "scanned"
    /\ UNCHANGED <<resolverVars, corpusVars, archiveVars, part_fs,
                   splitVars, auditVars>>

NextPipeline == CopyAllFiles \/ CopyLimitedFiles \/ LoadPatientIdsFromFull

Spec == InitPipeline /\ [][NextPipeline]_vars

----------------------------------------------------------------------------
(* Properties of the resolvers, under SpecResolve.                         *)

FileParts == Split(Basename(filepath), "-")

\* an upper-case token made of SD and then digits only
FusedDigitsOnly(t) ==
    Len(t) >= 3 /\ t[1] = "S" /\ t[2] = "D" /\ IsDigit(SubSeq(t, 3, Len(t)))

\* C5 (as stated): parse_category returns an upper-case value that is
\* "SD-" followed by the digits of the token after an SD token, or a token
\* made of SD immediately followed by digits only, or UNKNOWN; letter case
\* is ignored in matching.  (That the same file name yields the same value
\* holds of any function and is not part of the formula.)
C5_CategoryShape ==
    pc \in {"category", "identity"} =>
        /\ category = Upper(category)
        /\ \/ category = UNKNOWN
           \/ \E i \in 1..(Len(FileParts) - 1) :
                 /\ Upper(FileParts[i]) = <<"S", "D">>
                 /\ IsDigit(FileParts[i + 1])
                 /\ category = <<"S", "D", "-">> \o FileParts[i + 1]
           \/ \E i \in 1..Len(FileParts) :
                 /\ FusedDigitsOnly(Upper(FileParts[i]))
                 /\ category = Upper(FileParts[i])

\* the category-directed layer yields a person name
CategoryLayerYieldsName ==
    category \in {SD04, SD05} /\ Len(FileParts) >= 5

\* C6 (as stated): a layer that yields no person name is followed by the
\* next one, so whenever the path contains ZY<digits>-<name-segment> and the
\* category-directed layer yielded no name, patient id and name are the two
\* groups of the path pattern.
C6_FallsThroughToPath ==
    pc = "identity" =>
        (PathMatches(filepath) /\ ~CategoryLayerYieldsName =>
            ident = PathGroups(filepath))

IsInfix(t, s) ==
    \E p \in 1..(Len(s) - Len(t) + 1) : SubSeq(s, p, p + Len(t) - 1) = t

\* the same file name under the other directory
Elsewhere(dir) ==
    LET fp == InPath(dir, Basename(filepath))
    IN  parse_patient_id_and_name(fp, mapping, fp :> disk[filepath])

\* C6 (amended): the category decides first.  For SD-04 and SD-05 the name
\* is the fifth token of the file name, or the unknown-name literal when the
\* file name has fewer than five tokens, the patient id is the roster's
\* entry for that name or UNKNOWN, and the directory plays no part.  For
\* every other category, a path that contains ZY<digits>-<name-segment>
\* gives both values, whatever the roster and the content hold; without the
\* pattern the name is the fourth token or the unknown-name literal and the
\* patient id is the content's id or UNKNOWN.
C6_CategoryDecidesFirst ==
    pc = "identity" =>
        /\ category \in {SD04, SD05} =>
              /\ ident[2] = (IF Len(FileParts) >= 5 THEN FileParts[5]
                                                    ELSE UnknownName)
              /\ ident[1] = (IF ident[2] \in DOMAIN mapping
                             THEN mapping[ident[2]] ELSE UNKNOWN)
              /\ \A d \in {DirPlain, DirPatient} : Elsewhere(d) = ident
        /\ category \notin {SD04, SD05} /\ PathMatches(filepath) =>
              /\ IsInfix(ident[1] \o <<"-">> \o ident[2], filepath)
              /\ Len(ident[1]) >= 3 /\ ident[1][1] = "Z" /\ ident[1][2] = "Y"
              /\ IsDigit(SubSeq(ident[1], 3, Len(ident[1])))
              /\ Len(ident[2]) >= 1 /\ \A i \in 1..Len(ident[2]) : NotSlash(ident[2][i])
              /\ \A mp \in Rosters, c \in XmlContents :
                    parse_patient_id_and_name(filepath, mp, filepath :> c) = ident
        /\ category \notin {SD04, SD05} /\ ~PathMatches(filepath) =>
              /\ ident[2] = (IF Len(FileParts) >= 4 THEN FileParts[4]
                                                    ELSE UnknownName)
              /\ ident[1] = (IF disk[filepath].kind = "ext"
                             THEN disk[filepath].extension ELSE UNKNOWN)

\* an SD-04 document with fewer than five tokens, filed in a patient folder
C6_Witness ==
    /\ pc = "identity"
    /\ category = SD04 /\ Len(FileParts) < 5 /\ PathMatches(filepath)
    /\ ident = <<UNKNOWN, UnknownName>>

----------------------------------------------------------------------------
(* Properties of the pipeline, under Spec.                                 *)

Built == pc \in {"full", "sample", "scanned"}
Sampled == pc \in {"sample", "scanned"}

Min(a, b) == IF a <= b THEN a ELSE b

\* the places <<i, j, k>> of the index: patient i, category j, position k
Slots(pf) ==
    UNION {UNION {{<<i, j, k>> : k \in 1..Len(pf[i].val[j].val)} :
                  j \in 1..Len(pf[i].val)} : i \in 1..Len(pf)}

At(pf, t) == pf[t[1]].val[t[2]].val[t[3]]

Occurrences(pf, src) == Cardinality({t \in Slots(pf) : At(pf, t) = src})

\* the buckets <<patient_id, category>> of the index
Buckets(pf) == {<<pf[t[1]].key, pf[t[1]].val[t[2]].key>> : t \in Slots(pf)}

ResolvedId(src) == parse_patient_id_and_name(src, mapping, disk)[1]
ResolvedName(src) == parse_patient_id_and_name(src, mapping, disk)[2]
ResolvedCategory(src) == parse_category(Basename(src))

\* where a document of bucket b is written in a tree
DestOf(b, src) == Dest(b[1], ResolvedName(src), b[2], Basename(src))

\* the files a tree holds for bucket b
FilesOf(fs, b) ==
    {d \in DOMAIN fs :
        \E k \in 1..Len(Bucket(patient_files, b[1], b[2])) :
            d = DestOf(b, Bucket(patient_files, b[1], b[2])[k])}

\* C3: after the build pass every enumerated document is in exactly one of
\* two sets: in the index, at exactly one place of exactly one bucket, or
\* among the skipped; and the index holds nothing that was not enumerated.
C3_NoSilentLoss ==
    Built =>
        /\ \A i \in 1..Len(files) :
              \/ Occurrences(patient_files, files[i]) = 1 /\ files[i] \notin skipped
              \/ Occurrences(patient_files, files[i]) = 0 /\ files[i] \in skipped
        /\ \A t \in Slots(patient_files) :
              \E i \in 1..Len(files) : files[i] = At(patient_files, t)

\* documents in several buckets, one of them the bucket of UNKNOWN
C3_Witness ==
    /\ pc = "full"
    /\ Len(files) >= 3
    /\ Cardinality(Buckets(patient_files)) >= 2
    /\ HasKey(patient_files, UNKNOWN)

\* C7 (as stated): a document is in the index if and only if its person
\* name was resolved; one whose name was not resolved is recorded as skipped
\* and is in no bucket; one with a name but no patient id is in the bucket
\* of UNKNOWN for its category.
C7_InsertedIffNamed ==
    Built =>
        \A i \in 1..Len(files) :
            LET src == files[i]
            IN  /\ Occurrences(patient_files, src) >= 1
                    <=> ResolvedName(src) # UnknownName
                /\ ResolvedName(src) = UnknownName =>
                      src \in skipped /\ Occurrences(patient_files, src) = 0
                /\ ResolvedName(src) # UnknownName /\ ResolvedId(src) = UNKNOWN =>
                      \E k \in 1..Len(Bucket(patient_files, UNKNOWN,
                                             ResolvedCategory(src))) :
                          Bucket(patient_files, UNKNOWN, ResolvedCategory(src))[k] = src

\* C8 (as stated): the archive mirrors the index: every document of a
\* bucket has its own file in 1.full, so the files archived for a bucket
\* are as many as the bucket's list is long.
C8_ArchiveMirrorsIndex ==
    Built =>
        /\ \A t \in Slots(patient_files) :
              LET src == At(patient_files, t)
                  d == DestOf(<<patient_files[t[1]].key,
                                patient_files[t[1]].val[t[2]].key>>, src)
              IN  d \in DOMAIN full_fs /\ full_fs[d] = src
        /\ \A b \in Buckets(patient_files) :
              Cardinality(FilesOf(full_fs, b))
                  = Len(Bucket(patient_files, b[1], b[2]))

\* C2 (as stated): after copy_limited_files the sample holds, for every
\* bucket of N documents, exactly min(N, 10) files, and they are the first
\* min(N, 10) documents of the bucket's list.
C2_SampleCap ==
    Sampled =>
        \A b \in Buckets(patient_files) :
            LET lst == Bucket(patient_files, b[1], b[2])
                n == Min(Len(lst), SampleCap)
            IN  /\ Cardinality(FilesOf(part_fs, b)) = n
                /\ {part_fs[d] : d \in FilesOf(part_fs, b)} = {lst[k] : k \in 1..n}

\* C10 (as stated): the ids read back from the archive's folder names are
\* the patient ids under which the index was built.
C10_RoundTrip ==
    pc = "scanned" => full_ids = Keys(patient_files)

----------------------------------------------------------------------------
(* make_validation_set: the split of one category's pooled list            *)

\* one more folder than needed when the total is a multiple of the size
OneMore_NumFolders(total_files) == total_files \div 100 + 1

\* main.py:153
NumFolders(total_files) == (total_files + 99) \div 100

\* the slice counted from the end of the list
FromEnd_BatchSlice(lst, start, size) ==
    SubSeq(lst, Len(lst) - start - size + 1, Len(lst) - start)

\* main.py:164, files[start:start + size] with start counted from 0
BatchSlice(lst, start, size) == SubSeq(lst, start + 1, start + size)

\* the loop at main.py:158 from iteration i on (i counts from 0)
RECURSIVE BatchesFrom(_, _, _, _, _, _)
BatchesFrom(lst, i, start, num_folders, base_size, remainder) ==
    IF i >= num_folders THEN <<>>
    ELSE LET size == base_size + (IF i < remainder THEN 1 ELSE 0)
         IN  <<BatchSlice(lst, start, size)>>
                 \o BatchesFrom(lst, i + 1, start + size, num_folders,
                                base_size, remainder)

\* the body of the loop at main.py:146 for one category: the numbered
\* subfolders made, the list copied into each, and the list copied into the
\* category directory itself
SplitCategory(lst) ==
    LET total_files == Len(lst)
    IN  IF total_files > MaxBatch
        THEN LET num_folders == NumFolders(total_files)
                 base_size == total_files \div num_folders
                 remainder == total_files % num_folders
             IN  [subfolders |-> 1..num_folders,
                  batches |-> BatchesFrom(lst, 0, 0, num_folders, base_size,
                                          remainder),
                  direct |-> <<>>]
        ELSE [subfolders |-> {}, batches |-> <<>>, direct |-> lst]

\* the loop at main.py:146 over category_files
make_validation_set(cf) ==
    [j \in 1..Len(cf) |-> [key |-> cf[j].key, val |-> SplitCategory(cf[j].val)]]

\* The pooled list of a category is what os.listdir gave, in no particular
\* order; a pooled path is named by its category and a serial number, and
\* the list runs through the serial numbers downwards.
Pool(cat, n) == [i \in 1..n |-> <<cat, n + 1 - i>>]

CatA == <<"S", "D", "-", "0", "1">>
CatB == <<"S", "D", "0", "2">>

InitSplit ==
    /\ pc = "pooled"
    /\ \E n \in 1..MaxPool, m \in {0, 1, MaxBatch, MaxBatch + 1} :
          category_files =
              <<[key |-> CatA, val |-> Pool(CatA, n)]>>
                  \o (IF m = 0 THEN <<>>
                      ELSE <<[key |-> CatB, val |-> Pool(CatB, m)]>>)
    /\ validation = <<>>
    /\ filepath = NotRun /\ category = NotRun /\ ident = NotRun
    /\ files = <<>> /\ mapping = <<>> /\ disk = <<>>
    /\ patient_files = <<>> /\ skipped = {} /\ full_fs = <<>> /\ part_fs = <<>>
    /\ table = <<>> /\ df = <<>> /\ full_ids = {} /\ report = <<>>

MakeValidationSet ==
    /\ pc = "pooled"
    /\ validation' = make_validation_set(category_files)
    /\ pc' = "split"
    /\ UNCHANGED <<resolverVars, corpusVars, archiveVars, part_fs,
                   category_files, auditVars, full_ids>>

NextSplit == MakeValidationSet

SpecSplit == InitSplit /\ [][NextSplit]_vars

----------------------------------------------------------------------------
(* Properties of the split, under SpecSplit.                               *)

\* the least k with k * d >= n
Ceil(n, d) == CHOOSE k \in 0..n : k * d >= n /\ (k = 0 \/ (k - 1) * d < n)

RECURSIVE SumLen(_)
SumLen(bs) == IF Len(bs) = 0 THEN 0 ELSE Len(Head(bs)) + SumLen(Tail(bs))

RECURSIVE Concat(_)
Concat(bs) == IF Len(bs) = 0 THEN <<>> ELSE Head(bs) \o Concat(Tail(bs))

\* C1: for a category of N > 100 pooled files the batches are ceil(N/100)
\* in number, the first N mod num_batches of them hold floor(N/num_batches)+1
\* files and the others floor(N/num_batches), the sizes sum to N, no batch is
\* empty, none holds more than 100, and two sizes differ by at most 1; for
\* N <= 100 all N files go into the category directory and no numbered
\* subfolder is made.
C1_BalancedSplit ==
    pc = "split" =>
        \A j \in 1..Len(category_files) :
            LET N == Len(category_files[j].val)
                v == validation[j].val
                bs == v.batches
                nb == Len(bs)
            IN  /\ validation[j].key = category_files[j].key
                /\ N > MaxBatch =>
                      /\ nb = Ceil(N, MaxBatch)
                      /\ v.subfolders = 1..nb
                      /\ v.direct = <<>>
                      /\ \A i \in 1..nb :
                            /\ Len(bs[i]) = (N \div nb) + (IF i <= N % nb THEN 1 ELSE 0)
                            /\ Len(bs[i]) >= 1
                            /\ Len(bs[i]) <= MaxBatch
                      /\ \A i, k \in 1..nb : Len(bs[i]) - Len(bs[k]) <= 1
                      /\ SumLen(bs) = N
                /\ N <= MaxBatch =>
                      v.subfolders = {} /\ v.direct = category_files[j].val
                          /\ bs = <<>>

\* the examples of 250 files (84, 83, 83) beside a category of 100 files
C1_Witness ==
    /\ pc = "split"
    /\ Len(category_files) = 2
    /\ Len(category_files[1].val) = 250
    /\ Len(category_files[2].val) = 100
    /\ Len(validation[1].val.batches) = 3
    /\ Len(validation[1].val.batches[1]) = 84
    /\ Len(validation[1].val.batches[2]) = 83
    /\ Len(validation[1].val.batches[3]) = 83
    /\ validation[2].val.subfolders = {}

\* C9: for a category of N > 100 pooled files the batches 1..num_batches are
\* consecutive slices of the pooled list in its order: their concatenation
\* is the pooled list, every pooled file is in exactly one batch, and a file
\* that comes before another in the pool is in no later batch than it.
C9_ConsecutiveSlices ==
    pc = "split" =>
        \A j \in 1..Len(category_files) :
            LET lst == category_files[j].val
                bs == validation[j].val.batches
                InBatch(x) == {i \in 1..Len(bs) : \E k \in 1..Len(bs[i]) : bs[i][k] = x}
            IN  Len(lst) > MaxBatch =>
                    /\ Concat(bs) = lst
                    /\ \A p \in 1..Len(lst) : Cardinality(InBatch(lst[p])) = 1
                    /\ \A p \in 1..(Len(lst) - 1) :
                          \A a \in InBatch(lst[p]), b \in InBatch(lst[p + 1]) : a <= b

\* 201 files in three batches of 67, the second one the slice 68..134
C9_Witness ==
    /\ pc = "split"
    /\ Len(category_files[1].val) = 201
    /\ Len(validation[1].val.batches) = 3
    /\ validation[1].val.batches[2] = SubSeq(category_files[1].val, 68, 134)

----------------------------------------------------------------------------
(* check.py: the roster auditor                                            *)

\* the characters in code-point order, for sorted()
CodeOrder == <<" ", "-", ".", "/", "0", "1", "2", "3", "4", "5", "6", "7", "8",
               "9">> \o UpperLetters \o <<"\\">> \o LowerLetters

Code(c) == CHOOSE i \in 1..Len(CodeOrder) : CodeOrder[i] = c

\* s < t for Python strings
RECURSIVE StrLess(_, _)
StrLess(s, t) ==
    IF Len(t) = 0 THEN FALSE
    ELSE IF Len(s) = 0 THEN TRUE
    ELSE IF Head(s) = Head(t) THEN StrLess(Tail(s), Tail(t))
    ELSE Code(Head(s)) < Code(Head(t))

\* sorted(S) for a set of strings
RECURSIVE Sorted(_)
Sorted(S) ==
    IF S = {} THEN <<>>
    ELSE LET least == CHOOSE x \in S : \A y \in S \ {x} : StrLess(x, y)
         IN  <<least>> \o Sorted(S \ {least})

\* check.py:7-9: empty cells become "", and row i of the frame (counted
\* from 0) gets the sheet's row number i + 2
load_patient_ids_from_excel(tb) ==
    [i \in 1..Len(tb) |-> [id |-> tb[i], line |-> (i - 1) + RowOffset]]

\* only the first row of each missing id
FirstRowOnly_MissingRows(d, missing) ==
    LET keep(i) == d[i].id \in missing /\ \A j \in 1..(i - 1) : d[j].id # d[i].id
        F[i \in 0..Len(d)] ==
            IF i = 0 THEN <<>>
            ELSE IF keep(i) THEN Append(F[i - 1], d[i]) ELSE F[i - 1]
    IN  F[Len(d)]

\* check.py:38, df[df[id].isin(missing)]: the rows kept in their order
MissingRows(d, missing) ==
    LET F[i \in 0..Len(d)] ==
            IF i = 0 THEN <<>>
            ELSE IF d[i].id \in missing THEN Append(F[i - 1], d[i]) ELSE F[i - 1]
    IN  F[Len(d)]

\* the lines check_missing_patients prints: one per row of a missing id,
\* then the extra ids in sorted order
check_missing_patients(d, fids) ==
    LET excel_ids == {d[i].id : i \in 1..Len(d)}
        missing == excel_ids \ fids
        extra == fids \ excel_ids
    IN  [missing |-> IF missing # {} THEN MissingRows(d, missing) ELSE <<>>,
         extra |-> IF extra # {} THEN Sorted(extra) ELSE <<>>]

AuditIds == {<<"A">>, <<"B">>, <<"D">>, <<>>}

InitAudit ==
    /\ pc = "sheet"
    /\ table \in UNION {[1..n -> AuditIds] : n \in 0..MaxRows}
    /\ df = <<>> /\ full_ids = {} /\ report = <<>>
    /\ filepath = NotRun /\ category = NotRun /\ ident = NotRun
    /\ files = <<>> /\ mapping = <<>> /\ disk = <<>>
    /\ patient_files = <<>> /\ skipped = {} /\ full_fs = <<>> /\ part_fs = <<>>
    /\ category_files = <<>> /\ validation = <<>>

LoadPatientIdsFromExcel ==
    /\ pc = "sheet"
    /\ df' = load_patient_ids_from_excel(table)
    /\ pc' = "loaded"
    /\ UNCHANGED <<resolverVars, corpusVars, archiveVars, part_fs, splitVars,
                   table, report, full_ids>>

\* the archive scanned by load_patient_ids_from_full holds any folders
ScanArchive ==
    /\ pc = "loaded"
    /\ \E ids \in SUBSET AuditIds : full_ids' = ids
    /\ pc' = "listed"
    /\ UNCHANGED <<resolverVars, corpusVars, archiveVars, part_fs, splitVars,
                   auditVars>>

CheckMissingPatients ==
    /\ pc = "listed"
    /\ report' = check_missing_patients(df, full_ids)
    /\ pc' = "reported"
    /\ UNCHANGED <<resolverVars, corpusVars, archiveVars, part_fs, splitVars,
                   table, df, full_ids>>

NextAudit == LoadPatientIdsFromExcel \/ ScanArchive \/ CheckMissingPatients

SpecAudit == InitAudit /\ [][NextAudit]_vars

----------------------------------------------------------------------------
(* Properties of the auditor, under SpecAudit.                             *)

RosterIds == {table[i] : i \in 1..Len(table)}

\* The lines of the report: with missing = roster ids - archive ids and
\* extra = archive ids -
\* roster ids, the report has one line for every roster row whose id is
\* missing (k rows of one id give k lines), each with the row's number, its
\* index counted from 0 plus 2; it lists every extra id exactly once; it has
\* no line for a row whose id is in the archive.
C4_ReportLines ==
    pc = "reported" =>
        LET missing == RosterIds \ full_ids
            extra == full_ids \ RosterIds
            LinesOf(i) == {k \in 1..Len(report.missing) :
                              report.missing[k] = [id |-> table[i], line |-> (i - 1) + 2]}
        IN  /\ \A i \in 1..Len(table) :
                  Cardinality(LinesOf(i)) = (IF table[i] \in missing THEN 1 ELSE 0)
            /\ Len(report.missing)
                  = Cardinality({i \in 1..Len(table) : table[i] \in missing})
            /\ \A k \in 1..Len(report.missing) :
                  report.missing[k].id \notin full_ids
            /\ Len(report.extra) = Cardinality(extra)
            /\ {report.extra[k] : k \in 1..Len(report.extra)} = extra
            /\ Len(df) = Len(table)
            /\ \A i \in 1..Len(table) : df[i].id = table[i]

\* C4: for any roster table and any set of archive ids the report has one
\* line, with the row's number (index from 0, plus 2), for every roster row
\* whose id is in roster ids - archive ids, lists every id of archive ids -
\* roster ids exactly once, has no line for a row whose id is archived, and
\* check_missing_patients changes neither the roster (the sheet and its
\* frame) nor the archive ids.
C4_AuditReport ==
    /\ []C4_ReportLines
    /\ [][pc = "listed" => df' = df /\ table' = table /\ full_ids' = full_ids]_vars

\* one missing id on two rows, reported with both row numbers, and an id
\* only the archive has
C4_Witness ==
    /\ pc = "reported"
    /\ Len(table) = 3 /\ table[1] = table[3] /\ table[1] # table[2]
    /\ table[1] \notin full_ids /\ table[2] \in full_ids
    /\ Len(report.missing) = 2
    /\ report.missing[1].line = 2 /\ report.missing[2].line = 4
    /\ Len(report.extra) = 1

====
